---- MODULE Spec2Model ----
(***************************************************************************)
(* Materialized State of a dataflow operator (core/src/local/state.rs):    *)
(* a vector of indices (SingleState), a tag -> index map and a row count.  *)
(* Rows are reference-counted handles; a handle is modelled as a record    *)
(* [id, val]: id is the identity of the Rc allocation, val the row's data. *)
(* Index positions are 1-based here (state[1] is the source's state[0]);   *)
(* column positions are 0-based as in the source.                          *)
(* The second half models the base-table writer (api/src/mutator.rs): the  *)
(* Mutator, its DomainInputHandle and the BatchSendHandle, with the frames *)
(* written to and the acknowledgements read from every shard connection.   *)
(***************************************************************************)
EXTENDS Integers, Sequences, FiniteSets, TLC

\* ---------------------------------------------------------------- bounds
MaxCalls == 4        \* calls made on the State in one behaviour of Spec
MaxPlainCalls == 6   \* the same in one behaviour of SpecPlain
MaxCountCalls == 5   \* the same in one behaviour of SpecCount
MaxDrainCalls == 5   \* the same in one behaviour of SpecDrain

\* the values a column takes, and the replay tags
Values == {1, 2}
Tags == {1, 2}
None == 0            \* Option::None for an Option<Tag>

\* rows have two columns, numbered 0 and 1
RowVals == Values \X Values
\* the key column lists used with add_key / lookup
KeySpecs == {<<0>>, <<1>>, <<0, 1>>}
\* key tuples of every arity in use
KeyVals == {<<v>> : v \in Values} \cup (Values \X Values)

VARIABLES
    state,        \* State.state: Seq of [key, state, partial]
    by_tag,       \* State.by_tag: function from the known tags to an index
    rows,         \* State.rows
    nextId,       \* number of Rc allocations made so far
    budget,       \* number of calls the behaviour may still make
    panicked,     \* an assertion / expect / index failed: the thread unwinds
    last,         \* the last call: its name, arguments and return value
    nUntagged,    \* history: insert(_, None) calls
    nFound,       \* history: remove calls that found the row
    cleared,      \* history: clear was called
    filled,       \* history: per index, keys mark_filled and not since evicted
    mutator,      \* Mutator: [addr, key, key_is_primary, columns, dropped]
    txs,          \* DomainInputHandle.txs: per shard, frames written and
                  \* acknowledgements read on its connection
    batch_putter, \* the BatchSendHandle in use: [live, sent]
    hist,         \* history of that handle: operations enqueued (enq), and the
                  \* length of every connection's two streams at its creation
    ops,          \* the operations handed to inject_dropped_cols
    debug_assertions, \* the build checks overflow and debug_assert!
    rpcs,         \* the rpc cache: function from shard address lists to handles
    dihs,         \* the DomainInputHandles made so far, by identity (the Rc)
    mutators      \* the Mutators alive: [domain_input_handle, shard_addrs,
                  \* exclusivity]

vars == <<state, by_tag, rows, nextId, budget, panicked, last, nUntagged, nFound,
          cleared, filled, mutator, txs, batch_putter, hist, ops,
          debug_assertions, rpcs, dihs, mutators>>

\* the variables of the State and of its history
svars == <<state, by_tag, rows, nextId, nUntagged, nFound, cleared, filled>>

\* the variables of the Mutator, its connections and its build
mvars == <<mutator, txs, batch_putter, hist, ops, debug_assertions>>

\* the rpc cache, the handles and the Mutators built on it
cvars == <<rpcs, dihs, mutators>>

\* the part of the variables that is the State object itself
obj == <<state, by_tag, rows>>

\* ------------------------------------------------------------- helpers

\* the key of row value r under key columns cols (r[s.key[0]], r[s.key[1]], ..)
KeyOf(r, cols) == [j \in 1..Len(cols) |-> r[cols[j] + 1]]

\* KeyedState::lookup: the bucket at key, if any
KeyedLookup(ks, key) ==
    IF key \in DOMAIN ks THEN [some |-> TRUE, rs |-> ks[key]]
    ELSE [some |-> FALSE, rs |-> <<>>]

\* KeyedState::is_empty: the map has no key
KeyedIsEmpty(ks) == DOMAIN ks = {}

\* the map is left with the bucket at key only
KeyedInsert_dropping_others(ks, key, rs) == [k \in {key} |-> rs]

\* KeyedState::insert / HashMap::insert: set the bucket at key
KeyedInsert(ks, key, rs) ==
    [k \in DOMAIN ks \cup {key} |-> IF k = key THEN rs ELSE ks[k]]

\* the bucket is emptied and its key kept, instead of the key being dropped
KeyedRemove_keeps_key(ks, key) ==
    [k \in DOMAIN ks |-> IF k = key THEN <<>> ELSE ks[k]]

\* KeyedState::remove / HashMap::remove: drop the bucket at key
KeyedRemove(ks, key) == [k \in DOMAIN ks \ {key} |-> ks[k]]

\* the empty map a new index starts with (columns.into())
EmptyKeyed == [k \in {} |-> <<>>]

\* no index is ever found: every add_key pushes a new one
state_for_finds_none(cols) == 0

\* State::state_for: position of the index keyed by cols, 0 for None
state_for(cols) ==
    IF \E i \in 1..Len(state) : state[i].key = cols
    THEN CHOOSE i \in 1..Len(state) :
            /\ state[i].key = cols
            /\ \A j \in 1..(i - 1) : state[j].key # cols
    ELSE 0

\* insert_into without the test of s.partial: a hole gets a bucket
insert_into_filling_holes(s, r) ==
    LET key == KeyOf(r.val, s.key) IN
    IF key \in DOMAIN s.state
    THEN [s |-> [s EXCEPT !.state[key] = Append(@, r)], ok |-> TRUE]
    ELSE [s |-> [s EXCEPT !.state = KeyedInsert(s.state, key, <<r>>)],
          ok |-> TRUE]

\* State::insert_into: the index after the call, and the returned flag
insert_into(s, r) ==
    LET key == KeyOf(r.val, s.key) IN
    IF key \in DOMAIN s.state
    THEN [s |-> [s EXCEPT !.state[key] = Append(@, r)], ok |-> TRUE]
    ELSE IF s.partial
    THEN [s |-> s, ok |-> FALSE]
    ELSE [s |-> [s EXCEPT !.state = KeyedInsert(s.state, key, <<r>>)],
          ok |-> TRUE]

\* State::is_empty, of an index vector st
is_empty_of(st) == Len(st) = 0 \/ KeyedIsEmpty(st[1].state)

is_empty == is_empty_of(state)

\* State::len
len == rows

\* ------------------------------------------------------------- actions

\* an rpc cache on which no Mutator was built yet
NoCache ==
    /\ rpcs = [a \in {} |-> 0]
    /\ dihs = <<>>
    /\ mutators = <<>>

\* no Mutator is built next to the State
NoMutator ==
    /\ mutator = [addr |-> 0, key |-> <<>>, key_is_primary |-> FALSE,
                  columns |-> 0, dropped |-> <<>>]
    /\ txs = <<>>
    /\ batch_putter = [live |-> FALSE, sent |-> <<>>]
    /\ hist = [enq |-> <<>>, out0 |-> <<>>, inp0 |-> <<>>]
    /\ ops = <<>>
    /\ debug_assertions = FALSE

Init ==
    /\ state = <<>>
    /\ by_tag = [t \in {} |-> 0]
    /\ rows = 0
    /\ nextId = 0
    /\ budget = MaxCalls
    /\ panicked = FALSE
    /\ last = [op |-> "new"]
    /\ nUntagged = 0
    /\ nFound = 0
    /\ cleared = FALSE
    /\ filled = <<>>
    /\ NoMutator
    /\ NoCache

\* one more call is made, within the bound of the model
Call ==
    /\ ~panicked
    /\ budget > 0
    /\ budget' = budget - 1
    /\ UNCHANGED mvars
    /\ UNCHANGED cvars

\* every order in which the elements of set S can be visited
RECURSIVE Orders(_)
Orders(S) ==
    IF S = {} THEN {<<>>}
    ELSE UNION {{<<x>> \o p : p \in Orders(S \ {x})} : x \in S}

\* insert_into applied to each row of the sequence rs in turn (the closure
\* `insert` of add_key); the flags are dropped as in the source
RECURSIVE InsertAll(_, _)
InsertAll(s, rs) ==
    IF rs = <<>> THEN s
    ELSE InsertAll(insert_into(s, Head(rs)).s, Tail(rs))

\* the rows of map ks, bucket after bucket in the order ord of its keys
RECURSIVE Flatten(_, _)
Flatten(ks, ord) ==
    IF ord = <<>> THEN <<>>
    ELSE ks[Head(ord)] \o Flatten(ks, Tail(ord))

\* the keys of ks whose bucket holds a row; a hash map is iterated in an
\* arbitrary order, and only the order of these buckets has an effect
NonEmptyKeys(ks) == {k \in DOMAIN ks : ks[k] # <<>>}

\* the SingleState pushed by add_key (the index is partial iff tags came)
new_index_wrong_flag(columns, is_partial) ==
    [key |-> columns, state |-> EmptyKeyed, partial |-> FALSE]

new_index(columns, is_partial) ==
    [key |-> columns, state |-> EmptyKeyed, partial |-> is_partial]

\* State::add_key(columns, partial); partial is Some(tags) when is_some
add_key(columns, is_some, tags) ==
    /\ Call
    /\ LET sf == state_for(columns)
           exists == sf # 0
           i == IF exists THEN sf ELSE Len(state) + 1
           tagged == [t \in DOMAIN by_tag \cup tags |->
                        IF t \in tags THEN i ELSE by_tag[t]]
           pushed == Append(state, new_index(columns, is_some))
       IN
       /\ by_tag' = IF is_some THEN tagged ELSE by_tag
       /\ IF exists
          THEN UNCHANGED <<state, filled>>
          ELSE /\ filled' = Append(filled, {})
               /\ IF ~is_empty_of(pushed) /\ ~is_some
                  THEN \E ord \in Orders(NonEmptyKeys(pushed[1].state)) :
                         state' = [pushed EXCEPT ![Len(pushed)] =
                             InsertAll(@, Flatten(pushed[1].state, ord))]
                  ELSE state' = pushed
       /\ last' = [op |-> "add_key", cols |-> columns, is_some |-> is_some,
                   tags |-> tags, existed |-> exists]
    /\ UNCHANGED <<rows, nextId, panicked, nUntagged, nFound, cleared>>

\* the loop of the untagged branch of State::insert over indices from..Len:
\* the index vector and hit_any after it
RECURSIVE insert_all_indices(_, _, _, _)
insert_all_indices(st, r, from, hit_any) ==
    IF from > Len(st) THEN [st |-> st, hit_any |-> hit_any]
    ELSE LET res == insert_into(st[from], r) IN
         insert_all_indices([st EXCEPT ![from] = res.s], r, from + 1,
                            res.ok \/ hit_any)

\* State::insert(r, partial_tag) on the current State, r wrapped in a new
\* Rc: the index vector and row count after the call, and the return value
insert_result_counting_tagged(row, partial_tag) ==
    IF partial_tag # None
    THEN IF partial_tag \in DOMAIN by_tag
         THEN LET res == insert_into(state[by_tag[partial_tag]], row) IN
              [st |-> [state EXCEPT ![by_tag[partial_tag]] = res.s],
               rows |-> rows + 1, ret |-> res.ok]
         ELSE [st |-> state, rows |-> rows, ret |-> TRUE]
    ELSE LET res == insert_all_indices(state, row, 1, TRUE) IN
         [st |-> res.st, rows |-> rows + 1, ret |-> res.hit_any]

insert_result_unknown_tag_untagged(row, partial_tag) ==
    IF partial_tag # None /\ partial_tag \in DOMAIN by_tag
    THEN LET res == insert_into(state[by_tag[partial_tag]], row) IN
         [st |-> [state EXCEPT ![by_tag[partial_tag]] = res.s],
          rows |-> rows, ret |-> res.ok]
    ELSE LET res == insert_all_indices(state, row, 1, TRUE) IN
         [st |-> res.st, rows |-> rows + 1, ret |-> res.hit_any]

insert_result(row, partial_tag) ==
    IF partial_tag # None
    THEN IF partial_tag \in DOMAIN by_tag
         THEN LET res == insert_into(state[by_tag[partial_tag]], row) IN
              [st |-> [state EXCEPT ![by_tag[partial_tag]] = res.s],
               rows |-> rows, ret |-> res.ok]
         ELSE [st |-> state, rows |-> rows, ret |-> TRUE]
    ELSE LET res == insert_all_indices(state, row, 1, TRUE) IN
         [st |-> res.st, rows |-> rows + 1, ret |-> res.hit_any]

\* State::insert(r, partial_tag)
insert(r, partial_tag) ==
    /\ Call
    /\ nextId' = nextId + 1
    /\ LET res == insert_result([id |-> nextId + 1, val |-> r], partial_tag)
       IN
       /\ state' = res.st
       /\ rows' = res.rows
       /\ last' = [op |-> "insert", row |-> r, tag |-> partial_tag,
                   id |-> nextId + 1, ret |-> res.ret]
    /\ nUntagged' = IF partial_tag = None THEN nUntagged + 1 ELSE nUntagged
    /\ UNCHANGED <<by_tag, panicked, nFound, cleared, filled>>

\* Vec::pop instead of swap_remove: drops the last element whatever i is
swap_remove_pops(rs, i) == SubSeq(rs, 1, Len(rs) - 1)

\* Vec::remove(i) instead of swap_remove: the elements after i shift down
swap_remove_shifting(rs, i) ==
    [j \in 1..(Len(rs) - 1) |-> IF j < i THEN rs[j] ELSE rs[j + 1]]

\* Vec::swap_remove(i): the last element takes the place of element i
swap_remove(rs, i) ==
    LET n == Len(rs) IN
    [j \in 1..(n - 1) |-> IF j = i THEN rs[n] ELSE rs[j]]

\* rs.iter().position(|rsr| &rsr[..] == r): first position of value r, or 0
position(rs, r) ==
    IF \E j \in 1..Len(rs) : rs[j].val = r
    THEN CHOOSE j \in 1..Len(rs) :
            /\ rs[j].val = r
            /\ \A k \in 1..(j - 1) : rs[k].val # r
    ELSE 0

\* the closure `fix` of State::remove: the bucket after it, and `removed`
fix(removed, rs, r) ==
    LET i == position(rs, r) IN
    IF i # 0 THEN [rs |-> swap_remove(rs, i), removed |-> TRUE]
    ELSE [rs |-> rs, removed |-> removed]

\* the loop of State::remove over indices from..Len
RECURSIVE remove_all_indices(_, _, _, _, _)
remove_all_indices(st, r, from, hit, removed) ==
    IF from > Len(st) THEN [st |-> st, hit |-> hit, removed |-> removed]
    ELSE LET s == st[from]
             key == KeyOf(r, s.key)
         IN
         IF key \in DOMAIN s.state
         THEN LET f == fix(removed, s.state[key], r) IN
              remove_all_indices([st EXCEPT ![from].state[key] = f.rs], r,
                                 from + 1, TRUE, f.removed)
         ELSE remove_all_indices(st, r, from + 1, hit, removed)

\* usize::saturating_sub(1)
saturating_sub1(n) == IF n = 0 THEN 0 ELSE n - 1

\* State::remove(r)
remove(r) ==
    /\ Call
    /\ LET res == remove_all_indices(state, r, 1, FALSE, FALSE) IN
       /\ state' = res.st
       /\ rows' = IF res.removed THEN saturating_sub1(rows) ELSE rows
       /\ nFound' = IF res.removed THEN nFound + 1 ELSE nFound
       /\ last' = [op |-> "remove", row |-> r, ret |-> res.hit,
                   removed |-> res.removed]
    /\ UNCHANGED <<by_tag, nextId, panicked, nUntagged, cleared, filled>>

\* the call panics: an assert!, an expect or a HashMap index failed
Panic(what) ==
    /\ panicked' = TRUE
    /\ last' = [op |-> "panic", what |-> what]

\* State::mark_filled(key, tag); key has the arity of the tag's index
mark_filled(key, tag) ==
    /\ Call
    /\ IF tag \notin DOMAIN by_tag
       THEN /\ Panic("mark_filled")
            /\ UNCHANGED <<state, filled>>
       ELSE LET i == by_tag[tag]
                replaced == KeyedLookup(state[i].state, key)
            IN
            /\ Len(key) = Len(state[i].key)
            /\ state' = [state EXCEPT ![i].state = KeyedInsert(@, key, <<>>)]
            /\ filled' = [filled EXCEPT ![i] = @ \cup {key}]
            /\ IF replaced.some
               THEN Panic("mark_filled")
               ELSE /\ last' = [op |-> "mark_filled", key |-> key, tag |-> tag]
                    /\ UNCHANGED panicked
    /\ UNCHANGED <<by_tag, rows, nextId, nUntagged, nFound, cleared>>

\* State::mark_hole(key, tag); key has the arity of the tag's index
mark_hole(key, tag) ==
    /\ Call
    /\ IF tag \notin DOMAIN by_tag
       THEN /\ Panic("mark_hole")
            /\ UNCHANGED <<state, filled>>
       ELSE LET i == by_tag[tag]
                removed == KeyedLookup(state[i].state, key)
            IN
            /\ Len(key) = Len(state[i].key)
            /\ state' = [state EXCEPT ![i].state = KeyedRemove(@, key)]
            /\ filled' = [filled EXCEPT ![i] = @ \ {key}]
            /\ IF ~removed.some
               THEN Panic("mark_hole")
               ELSE /\ last' = [op |-> "mark_hole", key |-> key, tag |-> tag]
                    /\ UNCHANGED panicked
    /\ UNCHANGED <<by_tag, rows, nextId, nUntagged, nFound, cleared>>

\* State::lookup without the test of index.partial: a hole reads as empty
lookup_in_ignoring_partial(index, key) ==
    LET found == KeyedLookup(index.state, key) IN
    IF found.some THEN [kind |-> "Some", rs |-> found.rs]
    ELSE [kind |-> "Some", rs |-> <<>>]

\* the value State::lookup returns once it has located index
lookup_in(index, key) ==
    LET found == KeyedLookup(index.state, key) IN
    IF found.some THEN [kind |-> "Some", rs |-> found.rs]
    ELSE IF index.partial THEN [kind |-> "Missing", rs |-> <<>>]
    ELSE [kind |-> "Some", rs |-> <<>>]

\* the value State::lookup returns on the index at position i
lookup_at(i, key) == lookup_in(state[i], key)

\* State::lookup(columns, key); key has the arity of columns
lookup(columns, key) ==
    /\ Call
    /\ Len(key) = Len(columns)
    /\ IF state_for(columns) = 0
       THEN Panic("lookup")
       ELSE /\ last' = [op |-> "lookup", cols |-> columns, key |-> key,
                        ret |-> lookup_at(state_for(columns), key)]
            /\ UNCHANGED panicked
    /\ UNCHANGED <<state, by_tag, rows, nextId, nUntagged, nFound, cleared,
                   filled>>

\* State::clear
clear ==
    /\ Call
    /\ rows' = 0
    /\ state' = [i \in 1..Len(state) |-> [state[i] EXCEPT !.state = EmptyKeyed]]
    /\ filled' = [i \in 1..Len(state) |-> {}]
    /\ cleared' = TRUE
    /\ last' = [op |-> "clear"]
    /\ UNCHANGED <<by_tag, nextId, panicked, nUntagged, nFound>>

\* Rc::strong_count of row handle h: the clones of it the indices st hold
strong_count(st, h) ==
    Cardinality({t \in UNION {UNION {{<<i, k, p>> :
                                          p \in 1..Len(st[i].state[k])} :
                                      k \in DOMAIN st[i].state} :
                               i \in 1..Len(st)} :
                    st[t[1]].state[t[2]][t[3]].id = h.id})

\* no index is dropped before the rows are moved out
unalias_for_state_keeping_all(st) == st

\* State::unalias_for_state: self.state.drain(..).last() is pushed back
unalias_for_state(st) == IF st = <<>> THEN <<>> ELSE <<st[Len(st)]>>

\* the closure `own` of into_iter on every row of index s, the other indices
\* being st: Rc::try_unwrap succeeds iff the handle has one owner
own(st, s) ==
    IF \E k \in DOMAIN s.state : \E p \in 1..Len(s.state[k]) :
           strong_count(st, s.state[k][p]) # 1
    THEN [ok |-> FALSE, rows |-> EmptyKeyed]
    ELSE [ok |-> TRUE,
          rows |-> [k \in DOMAIN s.state |->
                      [p \in 1..Len(s.state[k]) |-> s.state[k][p].val]]]

\* State::into_iter: self is consumed, no call follows; the Vecs of rows are
\* yielded bucket by bucket, recorded here under the key of each bucket
into_iter ==
    /\ ~panicked
    /\ budget > 0
    /\ budget' = 0
    /\ LET left == unalias_for_state(state) IN
       IF left = <<>>
       THEN Panic("into_iter")
       ELSE LET owned == own(left, left[Len(left)]) IN
            IF ~owned.ok
            THEN Panic("rc still not owned after unaliasing")
            ELSE /\ last' = [op |-> "into_iter", ret |-> owned.rows,
                             dropped |-> Len(state) - 1]
                 /\ UNCHANGED panicked
    /\ state' = <<>>
    /\ by_tag' = [t \in {} |-> 0]
    /\ filled' = <<>>
    /\ UNCHANGED <<rows, nextId, nUntagged, nFound, cleared>>
    /\ UNCHANGED mvars
    /\ UNCHANGED cvars

Next ==
    \/ \E columns \in KeySpecs, tags \in SUBSET Tags :
          add_key(columns, TRUE, tags)
    \/ \E columns \in KeySpecs : add_key(columns, FALSE, {})
    \/ \E r \in RowVals, t \in Tags \cup {None} : insert(r, t)
    \/ \E r \in RowVals : remove(r)
    \/ \E key \in KeyVals, tag \in Tags : mark_filled(key, tag)
    \/ \E key \in KeyVals, tag \in Tags : mark_hole(key, tag)
    \/ \E columns \in KeySpecs, key \in KeyVals : lookup(columns, key)
    \/ clear

Spec == Init /\ [][Next]_vars

\* A State used without partial materialization: untagged add_key, untagged
\* insert and remove only, explored deeper.
InitPlain ==
    /\ state = <<>>
    /\ by_tag = [t \in {} |-> 0]
    /\ rows = 0
    /\ nextId = 0
    /\ budget = MaxPlainCalls
    /\ panicked = FALSE
    /\ last = [op |-> "new"]
    /\ nUntagged = 0
    /\ nFound = 0
    /\ cleared = FALSE
    /\ filled = <<>>
    /\ NoMutator
    /\ NoCache

NextPlain ==
    \/ \E columns \in KeySpecs : add_key(columns, FALSE, {})
    \/ \E r \in RowVals : insert(r, None)
    \/ \E r \in RowVals : remove(r)

SpecPlain == InitPlain /\ [][NextPlain]_vars

\* A State whose row count is followed through replays: one or two
\* single-column indices, one replay tag, keys filled by mark_filled, tagged
\* and untagged inserts and removes (no clear), explored deeper.
CountKeySpecs == {<<0>>, <<1>>}
CountTags == {1}

InitCount ==
    /\ state = <<>>
    /\ by_tag = [t \in {} |-> 0]
    /\ rows = 0
    /\ nextId = 0
    /\ budget = MaxCountCalls
    /\ panicked = FALSE
    /\ last = [op |-> "new"]
    /\ nUntagged = 0
    /\ nFound = 0
    /\ cleared = FALSE
    /\ filled = <<>>
    /\ NoMutator
    /\ NoCache

NextCount ==
    \/ \E columns \in CountKeySpecs, tags \in SUBSET CountTags :
          add_key(columns, TRUE, tags)
    \/ \E columns \in CountKeySpecs : add_key(columns, FALSE, {})
    \/ \E r \in RowVals, t \in CountTags \cup {None} : insert(r, t)
    \/ \E r \in RowVals : remove(r)
    \/ \E key \in KeyVals, tag \in CountTags : mark_filled(key, tag)

SpecCount == InitCount /\ [][NextCount]_vars

\* A State that is drained at the end: as above, with mark_hole, and
\* into_iter as the last call.
InitDrain ==
    /\ state = <<>>
    /\ by_tag = [t \in {} |-> 0]
    /\ rows = 0
    /\ nextId = 0
    /\ budget = MaxDrainCalls
    /\ panicked = FALSE
    /\ last = [op |-> "new"]
    /\ nUntagged = 0
    /\ nFound = 0
    /\ cleared = FALSE
    /\ filled = <<>>
    /\ NoMutator
    /\ NoCache

NextDrain ==
    \/ \E columns \in CountKeySpecs, tags \in SUBSET CountTags :
          add_key(columns, TRUE, tags)
    \/ \E columns \in CountKeySpecs : add_key(columns, FALSE, {})
    \/ \E r \in RowVals, t \in CountTags \cup {None} : insert(r, t)
    \/ \E r \in RowVals : remove(r)
    \/ \E key \in KeyVals, tag \in CountTags : mark_filled(key, tag)
    \/ \E key \in KeyVals, tag \in CountTags : mark_hole(key, tag)
    \/ into_iter

SpecDrain == InitDrain /\ [][NextDrain]_vars

\* ------------------------------------------------------------ Mutator
\* (api/src/mutator.rs) A BaseOperation is a record [op, row, key, set]:
\* Insert(row), Delete{key}, Update{key, set}, InsertOrUpdate{row, update}
\* (update held in set). A Modification is [m, v]: None, or Set(v).
\* self.columns is modelled by its length; self.dropped by a function from
\* the dropped positions (0-based) to their defaults.

Insert(row) == [op |-> "Insert", row |-> row, key |-> <<>>, set |-> <<>>]
Delete(key) == [op |-> "Delete", row |-> <<>>, key |-> key, set |-> <<>>]
Update(key, set) == [op |-> "Update", row |-> <<>>, key |-> key, set |-> set]
InsertOrUpdate(row, update) ==
    [op |-> "InsertOrUpdate", row |-> row, key |-> <<>>, set |-> update]

ModificationNone == [m |-> "None", v |-> 0]
ModificationSet(v) == [m |-> "Set", v |-> v]

\* a slot of a Vec past its initialized elements (after set_len)
Uninit == -1
\* usize::MAX, what 0usize - 1 wraps to when overflow is not checked; it
\* stands for 2^64 - 1 and is only ever compared with lengths
usize_MAX == 2147483647

\* n - 1 on a usize: a panic when the build checks overflow, else wrapping
sub1(n, dbg) ==
    IF n > 0 THEN [ok |-> TRUE, v |-> n - 1]
    ELSE IF dbg THEN [ok |-> FALSE, v |-> 0]
    ELSE [ok |-> TRUE, v |-> usize_MAX]

\* slice::swap(a, b) on 0-based positions
swap(r, a, b) == [r EXCEPT ![a + 1] = r[b + 1], ![b + 1] = r[a + 1]]

\* self.dropped.iter().rev(): the dropped positions, highest first
RECURSIVE rev_positions(_)
rev_positions(S) ==
    IF S = {} THEN <<>>
    ELSE LET hi == CHOOSE p \in S : \A q \in S : q <= p
         IN <<hi>> \o rev_positions(S \ {hi})

\* the while loop: shift elements until the free slot is next_insert;
\* c is [r, free, last_unmoved, ok]
RECURSIVE shift(_, _, _)
shift(c, next_insert, dbg) ==
    IF ~(c.free > next_insert) THEN c
    ELSE IF c.last_unmoved >= Len(c.r) \/ c.free >= Len(c.r)
    THEN [c EXCEPT !.ok = FALSE]                   \* swap: index out of bounds
    ELSE LET r1 == swap(c.r, c.last_unmoved, c.free)
             f1 == c.free - 1
         IN IF c.last_unmoved = 0
            THEN [c EXCEPT !.r = r1, !.free = f1,
                           !.ok = ~(dbg /\ next_insert # f1)]
            ELSE shift([c EXCEPT !.r = r1, !.free = f1,
                                 !.last_unmoved = c.last_unmoved - 1],
                       next_insert, dbg)

\* the 'next loop over the dropped columns still to insert (todo)
RECURSIVE insert_dropped(_, _, _, _)
insert_dropped(c, todo, dropped, dbg) ==
    IF todo = <<>> \/ ~c.ok THEN c
    ELSE LET next_insert == Head(todo)
             f == sub1(c.free, dbg)
             c1 == IF f.ok THEN shift([c EXCEPT !.free = f.v], next_insert, dbg)
                   ELSE [c EXCEPT !.ok = FALSE]
         IN IF ~c1.ok THEN c1
            ELSE IF next_insert >= Len(c1.r)
            THEN [c1 EXCEPT !.ok = FALSE]          \* get_mut(..).unwrap()
            ELSE insert_dropped(
                     [c1 EXCEPT !.r[next_insert + 1] = dropped[next_insert]],
                     Tail(todo), dropped, dbg)

\* defaults written over the original values, instead of shifting them up
inject_row_overwriting(r, dropped, dbg) ==
    LET N == Len(r) + Cardinality(DOMAIN dropped)
    IN [ok |-> TRUE,
        r |-> [i \in 1..N |->
                 IF (i - 1) \in DOMAIN dropped THEN dropped[i - 1]
                 ELSE IF i <= Len(r) THEN r[i] ELSE Uninit]]

\* the body of the loop over rs for one row r: [ok, r]
inject_row(r, dropped, dbg) ==
    LET ndropped == Cardinality(DOMAIN dropped)
        lu == sub1(Len(r), dbg)                     \* r.len() - 1
        c0 == [r |-> r \o [i \in 1..ndropped |-> Uninit],
               free |-> Len(r) + ndropped,
               last_unmoved |-> lu.v, ok |-> lu.ok]
        c == insert_dropped(c0, rev_positions(DOMAIN dropped), dropped, dbg)
    IN [ok |-> c.ok, r |-> c.r]

\* Mutator::inject_dropped_cols on the slice s: [ok, rs]; the operations
\* after one that panics are left as they were
RECURSIVE inject_dropped_cols_result(_, _, _)
inject_dropped_cols_result(s, dropped, dbg) ==
    IF DOMAIN dropped = {} \/ s = <<>> THEN [ok |-> TRUE, rs |-> s]
    ELSE IF Head(s).op \notin {"Insert", "InsertOrUpdate"}
    THEN [ok |-> FALSE, rs |-> s]                  \* unimplemented!()
    ELSE LET row == inject_row(Head(s).row, dropped, dbg)
             rest == inject_dropped_cols_result(Tail(s), dropped, dbg)
         IN IF ~row.ok THEN [ok |-> FALSE, rs |-> s]
            ELSE [ok |-> rest.ok,
                  rs |-> <<[Head(s) EXCEPT !.row = row.r]>> \o rest.rs]

\* one more call is made on the Mutator side, within the bound of the model
MCall ==
    /\ ~panicked
    /\ budget > 0
    /\ budget' = budget - 1
    /\ UNCHANGED svars
    /\ UNCHANGED cvars

\* inject_dropped_cols(&mut ops)
inject_dropped_cols ==
    LET res == inject_dropped_cols_result(ops, mutator.dropped,
                                          debug_assertions)
    IN /\ MCall
       /\ ops' = res.rs
       /\ panicked' = ~res.ok
       /\ last' = [op |-> "inject_dropped_cols", rs |-> ops]
       /\ UNCHANGED <<mutator, txs, batch_putter, hist, debug_assertions>>

\* the State next to a Mutator: the one State::default() builds
NoState ==
    /\ state = <<>>
    /\ by_tag = [t \in {} |-> 0]
    /\ rows = 0
    /\ nextId = 0
    /\ nUntagged = 0
    /\ nFound = 0
    /\ cleared = FALSE
    /\ filled = <<>>

\* the dropped maps of k positions among the N = n + k of a table whose
\* rows have n columns left
MaxDropped == 2
DroppedMaps(n) ==
    UNION {[P -> Values] : P \in {Q \in SUBSET (0..(n + MaxDropped - 1)) :
              /\ Cardinality(Q) <= MaxDropped
              /\ \A q \in Q : q < n + Cardinality(Q)}}

\* the rows of n columns
RowsOf(n) == [1..n -> Values]
\* the slices of one or two operations
Slices(O) == {<<o>> : o \in O} \cup {<<o1, o2>> : o1 \in O, o2 \in O}

\* inject_dropped_cols applied once to a slice of inserts of rows of the
\* table's arity and deletes, under every dropped map
InitInject ==
    /\ NoState
    /\ NoCache
    /\ budget = 1
    /\ panicked = FALSE
    /\ last = [op |-> "new"]
    /\ \E n \in 0..2 :
        /\ \E d \in DroppedMaps(n) :
              mutator = [addr |-> 0, key |-> <<>>, key_is_primary |-> FALSE,
                         columns |-> n, dropped |-> d]
        /\ ops \in Slices({Insert(r) : r \in RowsOf(n)} \cup {Delete(<<1>>)})
    /\ txs = <<>>
    /\ batch_putter = [live |-> FALSE, sent |-> <<>>]
    /\ hist = [enq |-> <<>>, out0 |-> <<>>, inp0 |-> <<>>]
    /\ debug_assertions \in BOOLEAN

NextInject == inject_dropped_cols

SpecInject == InitInject /\ [][NextInject]_vars

\* ---------------------------------------------------- BatchSendHandle
\* A connection txs[s] is [out, inp]: the Input frames written to shard s
\* and the acknowledgements read back from it, both in order. An
\* acknowledgement is [k, id]: Ok(id) or Err(()); reading one can also fail
\* with an I/O error (k = "io"). Shards are numbered from 1 here, and
\* shard_by yields the source's 0-based number.

Ok(id) == [k |-> "Ok", id |-> id]
Err == [k |-> "Err", id |-> 0]
IoError == [k |-> "io", id |-> 0]
Panicked == [k |-> "panic", id |-> 0]

\* shard_by(value, n): a stable partition of the values over n shards
shard_by(v, n) == v % n

\* Link::new(self.addr, self.addr) and the Input envelope
Link(src, dst) == <<src, dst>>
Input(link, data) == [link |-> link, data |-> data]

\* the frame is put before the frames already written, not after them
send_prepends(tx, i) == [tx EXCEPT !.out = <<i>> \o @]

\* TcpSender::send on connection tx
send(tx, i) == [tx EXCEPT !.out = Append(@, i)]

\* the value enqueue shards operation r by; ok is false when the index is
\* out of bounds
shard_key(r, key_col) ==
    IF r.op \in {"Insert", "InsertOrUpdate"}
    THEN IF key_col < Len(r.row) THEN [ok |-> TRUE, v |-> r.row[key_col + 1]]
         ELSE [ok |-> FALSE, v |-> 0]
    ELSE IF 0 < Len(r.key) THEN [ok |-> TRUE, v |-> r.key[1]]
         ELSE [ok |-> FALSE, v |-> 0]

\* every operation goes to the first shard
shard_writes_unsharded(data, key_col, n) ==
    [s \in 1..n |-> IF s = 1 THEN data ELSE <<>>]

\* shard_writes after the loop over i.data: per shard, its operations in
\* the order of data
shard_writes(data, key_col, n) ==
    [s \in 1..n |->
        SelectSeq(data, LAMBDA r : shard_by(shard_key(r, key_col).v, n) = s - 1)]

\* the loop over shard_writes from shard s on: one Input per non-empty
\* bucket; the send to shard fail, if it comes to it, fails
RECURSIVE send_shard_writes(_, _, _, _, _, _)
send_shard_writes(t, sent, writes, s, link, fail) ==
    IF s > Len(t) THEN [txs |-> t, sent |-> sent, ret |-> "Ok"]
    ELSE IF writes[s] = <<>>
    THEN send_shard_writes(t, sent, writes, s + 1, link, fail)
    ELSE IF fail = s THEN [txs |-> t, sent |-> sent, ret |-> "Err"]
    ELSE send_shard_writes([t EXCEPT ![s] = send(t[s], Input(link, writes[s]))],
                           [sent EXCEPT ![s] = @ + 1], writes, s + 1, link,
                           fail)

\* BatchSendHandle::enqueue(i, key) on connections t and counts sent:
\* [txs, sent, ret], ret "Ok", "Err" (a SendError) or "panic"
enqueue_result(t, sent, i, key, fail) ==
    IF Len(t) = 1
    THEN IF fail = 1 THEN [txs |-> t, sent |-> sent, ret |-> "Err"]
         ELSE [txs |-> [t EXCEPT ![1] = send(t[1], i)],
               sent |-> [sent EXCEPT ![1] = @ + 1], ret |-> "Ok"]
    ELSE IF key = <<>> \/ Len(key) # 1       \* unreachable!, unimplemented!
    THEN [txs |-> t, sent |-> sent, ret |-> "panic"]
    ELSE IF \E j \in 1..Len(i.data) : ~shard_key(i.data[j], key[1]).ok
    THEN [txs |-> t, sent |-> sent, ret |-> "panic"]
    ELSE send_shard_writes(t, sent, shard_writes(i.data, key[1], Len(t)), 1,
                           i.link, fail)

\* the loops of wait from shard s on: sent[s] reads per shard, acks the
\* outcomes of the reads still to come, id the last acknowledgement read
RECURSIVE read_acks(_, _, _, _, _)
read_acks(t, sent, s, id, acks) ==
    IF s > Len(t) THEN [txs |-> t, ret |-> id]
    ELSE IF sent[s] = 0 THEN read_acks(t, sent, s + 1, id, acks)
    ELSE IF Head(acks) = IoError THEN [txs |-> t, ret |-> Panicked]
    ELSE read_acks([t EXCEPT ![s].inp = Append(@, Head(acks))],
                   [sent EXCEPT ![s] = @ - 1], s, Head(acks), Tail(acks))

\* one acknowledgement is read per shard that was sent to, however many
\* frames it was sent
wait_result_once_per_shard(t, sent, acks) ==
    read_acks(t, [s \in 1..Len(sent) |-> IF sent[s] > 0 THEN 1 ELSE 0], 1,
              Ok(0), acks)

\* BatchSendHandle::wait: [txs, ret]
wait_result(t, sent, acks) == read_acks(t, sent, 1, Ok(0), acks)

RECURSIVE Sum(_)
Sum(q) == IF q = <<>> THEN 0 ELSE Head(q) + Sum(Tail(q))

\* the outcomes of the reads a wait on counts sent makes: the shards answer
\* Ok with a growing sequence number, but for at most one read, which
\* yields Err(()) or fails
AcksFor(sent) ==
    {[j \in 1..Sum(sent) |-> IF j = b THEN x ELSE Ok(j)] :
        b \in 0..Sum(sent), x \in {Err, IoError}}

\* the lengths of stream f (out or inp) of every connection
Lens(t, f) == [s \in 1..Len(t) |-> Len(t[s][f])]

\* DomainInputHandle::sender / BatchSendHandle::new
sender ==
    /\ MCall
    /\ ~batch_putter.live
    /\ batch_putter' = [live |-> TRUE, sent |-> [s \in 1..Len(txs) |-> 0]]
    /\ hist' = [enq |-> <<>>, out0 |-> Lens(txs, "out"),
                inp0 |-> Lens(txs, "inp")]
    /\ last' = [op |-> "sender"]
    /\ UNCHANGED <<panicked, mutator, txs, ops, debug_assertions>>

\* batch_putter.enqueue(Input { link, data }, &self.key[..])
enqueue(data, fail) ==
    LET i == Input(Link(mutator.addr, mutator.addr), data)
        res == enqueue_result(txs, batch_putter.sent, i, mutator.key, fail)
    IN /\ MCall
       /\ batch_putter.live
       /\ txs' = res.txs
       /\ batch_putter' = [batch_putter EXCEPT !.sent = res.sent]
       /\ hist' = [hist EXCEPT !.enq = @ \o data]
       /\ panicked' = (res.ret = "panic")
       /\ last' = [op |-> "enqueue", i |-> i, fail |-> fail, ret |-> res.ret]
       /\ UNCHANGED <<mutator, ops, debug_assertions>>

\* batch_putter.wait(), which consumes the handle
wait(acks) ==
    LET res == wait_result(txs, batch_putter.sent, acks)
    IN /\ MCall
       /\ batch_putter.live
       /\ txs' = res.txs
       /\ batch_putter' = [batch_putter EXCEPT !.live = FALSE]
       /\ panicked' = (res.ret = Panicked)
       /\ last' = [op |-> "wait", sent |-> batch_putter.sent, ret |-> res.ret]
       /\ UNCHANGED <<mutator, hist, ops, debug_assertions>>

MaxBatchCalls == 3
ShardCounts == {1, 2}
BatchKeys == {<<>>, <<0>>, <<1>>, <<0, 1>>}
\* the operations enqueued: rows of two columns, keys of one column or none
BatchOps ==
    {Insert(<<1, 2>>), Insert(<<2, 1>>), Delete(<<1>>), Delete(<<>>),
     Update(<<2>>, <<ModificationNone, ModificationSet(1)>>),
     InsertOrUpdate(<<1, 1>>, <<ModificationNone, ModificationNone>>)}
\* the data of the Inputs enqueued: none, one or two operations
BatchData ==
    {<<>>} \cup {<<o>> : o \in BatchOps}
        \cup {<<Insert(<<1, 2>>), Delete(<<2>>)>>,
              <<Delete(<<1>>), Insert(<<1, 2>>)>>}

\* the connections of a new DomainInputHandle to n shards
NewTxs(n) == [s \in 1..n |-> [out |-> <<>>, inp |-> <<>>]]

\* a BatchSendHandle just made by sender() on a new DomainInputHandle
InitBatch ==
    /\ NoState
    /\ NoCache
    /\ budget = MaxBatchCalls
    /\ panicked = FALSE
    /\ last = [op |-> "sender"]
    /\ \E k \in BatchKeys :
          mutator = [addr |-> 0, key |-> k, key_is_primary |-> TRUE,
                     columns |-> 2, dropped |-> <<>>]
    /\ \E n \in ShardCounts :
          /\ txs = NewTxs(n)
          /\ batch_putter = [live |-> TRUE, sent |-> [s \in 1..n |-> 0]]
          /\ hist = [enq |-> <<>>, out0 |-> [s \in 1..n |-> 0],
                     inp0 |-> [s \in 1..n |-> 0]]
    /\ ops = <<>>
    /\ debug_assertions = FALSE

NextBatch ==
    \/ sender
    \/ \E data \in BatchData, fail \in 0..Len(txs) :
          enqueue(data, fail)
    \/ \E acks \in AcksFor(batch_putter.sent) : wait(acks)

SpecBatch == InitBatch /\ [][NextBatch]_vars

\* ---------------------------------------------------- Mutator operations
\* The result of a call is [kind, a, b]: Ok(()), a MutatorError with its
\* (expected, got), or a panic.
RetOk == [kind |-> "Ok", a |-> 0, b |-> 0]
WrongColumnCount(a, b) == [kind |-> "WrongColumnCount", a |-> a, b |-> b]
WrongKeyColumnCount(a, b) == [kind |-> "WrongKeyColumnCount", a |-> a, b |-> b]
TransactionFailed == [kind |-> "TransactionFailed", a |-> 0, b |-> 0]
RetPanic == [kind |-> "panic", a |-> 0, b |-> 0]

\* the outcomes of n reads, of which read b (if any) yields x
AckSeq(n, bad) == [j \in 1..n |-> IF j = bad.at THEN bad.x ELSE Ok(j)]

\* Mutator::prep_records(ops): [ok, i]
prep_records(data) ==
    LET inj == inject_dropped_cols_result(data, mutator.dropped,
                                          debug_assertions)
    IN [ok |-> inj.ok,
        i |-> Input(Link(mutator.addr, mutator.addr), inj.rs)]

\* the frames are enqueued and no acknowledgement is read
base_send_result_no_wait(t, i, key, fail, bad) ==
    LET e == enqueue_result(t, [s \in 1..Len(t) |-> 0], i, key, fail)
    IN [txs |-> e.txs,
        ret |-> IF e.ret = "panic" THEN Panicked
                ELSE IF e.ret = "Err" THEN Err ELSE Ok(0),
        io |-> IF e.ret = "Err" THEN "send" ELSE "none"]

\* DomainInputHandle::base_send(i, key): [txs, ret, io]; ret is Ok(id),
\* Err (a SendError) or Panicked; io tells whether a send or a read failed
base_send_result(t, i, key, fail, bad) ==
    LET e == enqueue_result(t, [s \in 1..Len(t) |-> 0], i, key, fail)
        w == wait_result(e.txs, e.sent, AckSeq(Sum(e.sent), bad))
    IN IF e.ret = "panic" THEN [txs |-> e.txs, ret |-> Panicked, io |-> "none"]
       ELSE IF e.ret = "Err" THEN [txs |-> e.txs, ret |-> Err, io |-> "send"]
       ELSE [txs |-> w.txs, ret |-> w.ret,
             io |-> IF w.ret = Panicked THEN "read" ELSE "none"]

\* Mutator::send(ops): [txs, ret, io]; .unwrap() panics on Err
send_result(data, fail, bad) ==
    LET m == prep_records(data)
        b == base_send_result(txs, m.i, mutator.key, fail, bad)
    IN IF ~m.ok THEN [txs |-> txs, ret |-> RetPanic, io |-> "none"]
       ELSE [txs |-> b.txs,
             ret |-> IF b.ret.k = "Ok" THEN RetOk ELSE RetPanic,
             io |-> b.io]

\* BaseOperation::row(): the row of an Insert or InsertOrUpdate
row(o) ==
    IF o.op \in {"Insert", "InsertOrUpdate"}
    THEN [some |-> TRUE, cols |-> o.row]
    ELSE [some |-> FALSE, cols |-> <<>>]

\* the position of the first row whose length is not n, 0 if there is none
first_wrong(rws, n) ==
    IF \A j \in 1..Len(rws) : Len(rws[j]) = n THEN 0
    ELSE CHOOSE j \in 1..Len(rws) :
            /\ Len(rws[j]) # n
            /\ \A q \in 1..(j - 1) : Len(rws[q]) = n

\* the loop of update / insert_or_update over the modifications u, a
\* sequence of <<coli, m>>: [ok, set, coli]
RECURSIVE apply_modifications(_, _)
apply_modifications(set, u) ==
    IF u = <<>> THEN [ok |-> TRUE, set |-> set, coli |-> 0]
    ELSE IF Head(u)[1] >= mutator.columns
    THEN [ok |-> FALSE, set |-> set, coli |-> Head(u)[1]]
    ELSE apply_modifications([set EXCEPT ![Head(u)[1] + 1] = Head(u)[2]],
                             Tail(u))

\* vec![Modification::None; self.columns.len()]
no_modifications == [c \in 1..mutator.columns |-> ModificationNone]

\* what every operation of the Mutator does with the result res of its
\* body: the connections are left as the body left them, a panic unwinds
Returns(name, args, res) ==
    /\ MCall
    /\ ~batch_putter.live
    /\ txs' = res.txs
    /\ panicked' = (res.ret = RetPanic)
    /\ last' = [op |-> name, args |-> args, ret |-> res.ret, io |-> res.io,
                wrote |-> [s \in 1..Len(txs) |->
                             Len(res.txs[s].out) - Len(txs[s].out)],
                read |-> [s \in 1..Len(txs) |->
                             Len(res.txs[s].inp) - Len(txs[s].inp)]]
    /\ UNCHANGED <<mutator, batch_putter, hist, ops, debug_assertions>>

\* the rows before the offending one are sent, as batch_put does
multi_put_result_sending_prefix(rws, fail, bad) ==
    LET w == first_wrong(rws, mutator.columns)
    IN IF w = 0
       THEN send_result([j \in 1..Len(rws) |-> Insert(rws[j])], fail, bad)
       ELSE [send_result([j \in 1..(w - 1) |-> Insert(rws[j])], fail, bad)
               EXCEPT !.ret = WrongColumnCount(mutator.columns, Len(rws[w]))]

\* Mutator::put(u): [txs, ret, io]
put_result(u, fail, bad) ==
    LET data == <<Insert(u)>>
    IN IF Len(data[1].row) # mutator.columns
       THEN [txs |-> txs, io |-> "none",
             ret |-> WrongColumnCount(mutator.columns, Len(data[1].row))]
       ELSE send_result(data, fail, bad)

\* Mutator::multi_put(i): [txs, ret, io]
multi_put_result(rws, fail, bad) ==
    LET w == first_wrong(rws, mutator.columns)
    IN IF w # 0
       THEN [txs |-> txs, io |-> "none",
             ret |-> WrongColumnCount(mutator.columns, Len(rws[w]))]
       ELSE send_result([j \in 1..Len(rws) |-> Insert(rws[j])], fail, bad)

put(u, fail, bad) ==
    Returns("put", [rows |-> <<u>>], put_result(u, fail, bad))

multi_put(rws, fail, bad) ==
    Returns("multi_put", [rows |-> rws], multi_put_result(rws, fail, bad))

\* the loop of batch_put over the items still to come, then wait;
\* fails[j] is the shard whose send fails while item j is enqueued
RECURSIVE batch_put_loop(_, _, _, _, _)
batch_put_loop(t, sent, items, fails, bad) ==
    IF items = <<>>
    THEN LET w == wait_result(t, sent, AckSeq(Sum(sent), bad))
         IN [txs |-> w.txs,
             ret |-> IF w.ret = Panicked THEN RetPanic
                     ELSE IF w.ret.k = "Ok" THEN RetOk ELSE TransactionFailed,
             io |-> IF w.ret = Panicked THEN "read" ELSE "none"]
    ELSE LET cols == row(Head(items))
             m == prep_records(<<Head(items)>>)
             e == enqueue_result(t, sent, m.i, mutator.key, Head(fails))
         IN IF cols.some /\ Len(cols.cols) # mutator.columns
            THEN [txs |-> t, io |-> "none",
                  ret |-> WrongColumnCount(mutator.columns, Len(cols.cols))]
            ELSE IF ~m.ok THEN [txs |-> t, ret |-> RetPanic, io |-> "none"]
            ELSE IF e.ret # "Ok"                           \* .unwrap()
            THEN [txs |-> e.txs, ret |-> RetPanic,
                  io |-> IF e.ret = "Err" THEN "send" ELSE "none"]
            ELSE batch_put_loop(e.txs, e.sent, Tail(items), Tail(fails), bad)

\* Mutator::batch_put(i)
batch_put(items, fails, bad) ==
    Returns("batch_put", [items |-> items],
            batch_put_loop(txs, [s \in 1..Len(txs) |-> 0], items, fails, bad))

\* Mutator::delete(key)
delete(key, fail, bad) ==
    Returns("delete", [key |-> key], send_result(<<Delete(key)>>, fail, bad))

\* the key's length is not checked
update_result_unchecked_key(key, u, fail, bad) ==
    LET set == apply_modifications(no_modifications, u)
    IN IF mutator.key = <<>> \/ ~mutator.key_is_primary
       THEN [txs |-> txs, ret |-> RetPanic, io |-> "none"]
       ELSE IF ~set.ok
       THEN [txs |-> txs, io |-> "none",
             ret |-> WrongColumnCount(mutator.columns, set.coli + 1)]
       ELSE send_result(<<Update(key, set.set)>>, fail, bad)

\* Mutator::update(key, u): [txs, ret, io]
update_result(key, u, fail, bad) ==
    LET set == apply_modifications(no_modifications, u)
    IN IF mutator.key = <<>> \/ ~mutator.key_is_primary          \* assert!
       THEN [txs |-> txs, ret |-> RetPanic, io |-> "none"]
       ELSE IF Len(key) # Len(mutator.key)
       THEN [txs |-> txs, io |-> "none",
             ret |-> WrongKeyColumnCount(Len(mutator.key), Len(key))]
       ELSE IF ~set.ok
       THEN [txs |-> txs, io |-> "none",
             ret |-> WrongColumnCount(mutator.columns, set.coli + 1)]
       ELSE send_result(<<Update(key, set.set)>>, fail, bad)

update(key, u, fail, bad) ==
    Returns("update", [key |-> key, u |-> u],
            update_result(key, u, fail, bad))

\* Mutator::insert_or_update(insert, update): [txs, ret, io]
insert_or_update_result(ins, upd, fail, bad) ==
    LET set == apply_modifications(no_modifications, upd)
    IN IF mutator.key = <<>> \/ ~mutator.key_is_primary          \* assert!
       THEN [txs |-> txs, ret |-> RetPanic, io |-> "none"]
       ELSE IF Len(ins) # mutator.columns
       THEN [txs |-> txs, io |-> "none",
             ret |-> WrongColumnCount(mutator.columns, Len(ins))]
       ELSE IF ~set.ok
       THEN [txs |-> txs, io |-> "none",
             ret |-> WrongColumnCount(mutator.columns, set.coli + 1)]
       ELSE send_result(<<InsertOrUpdate(ins, set.set)>>, fail, bad)

insert_or_update(ins, upd, fail, bad) ==
    Returns("insert_or_update", [row |-> ins, u |-> upd],
            insert_or_update_result(ins, upd, fail, bad))

MaxMutatorCalls == 1
\* a table of two columns, keyed by column 0 or by nothing, with or without
\* a third, dropped column
MutatorKeys == {<<>>, <<0>>}
MutatorDropped == {<<>>, (2 :> 1)}
\* rows too short, right and too long; keys of no, one and two columns
MutatorRows == {<<1>>, <<1, 2>>, <<2, 1>>, <<1, 2, 1>>}
MutatorKeyVals == {<<>>, <<1>>, <<2>>, <<1, 2>>}
\* modifications of column 0, of columns 1 and 0, and of a column out of
\* range after one in range
MutatorMods ==
    {<<>>, <<<<0, ModificationSet(1)>>>>,
     <<<<1, ModificationSet(2)>>, <<0, ModificationSet(2)>>>>,
     <<<<1, ModificationSet(1)>>, <<3, ModificationSet(1)>>>>}
\* the rows of a multi_put: all right, or one too short or too long, before
\* or after a right one
MutatorRowLists ==
    {<<>>, <<<<1, 2>>>>, <<<<1>>>>, <<<<1, 2>>, <<2, 1>>>>,
     <<<<1, 2>>, <<1, 2, 1>>>>, <<<<1>>, <<1, 2>>>>, <<<<2, 1>>, <<1>>>>}
\* the items of a batch_put: the same as inserts, and deletes
MutatorItemLists ==
    {[j \in 1..Len(l) |-> Insert(l[j])] : l \in MutatorRowLists}
        \cup {<<Delete(<<1>>)>>, <<Insert(<<1, 2>>), Delete(<<2>>)>>}
\* at most one send of a call fails: that of item k, to shard s
FailSeqs(m, n) ==
    {[j \in 1..m |-> IF j = k THEN s ELSE 0] : k \in 0..m, s \in 1..n}
\* at most one read of a call does not yield Ok
BadReads ==
    {[at |-> 0, x |-> Err], [at |-> 1, x |-> Err], [at |-> 1, x |-> IoError],
     [at |-> 2, x |-> Err]}

\* a Mutator just built on a new DomainInputHandle
InitMutator ==
    /\ NoState
    /\ NoCache
    /\ budget = MaxMutatorCalls
    /\ panicked = FALSE
    /\ last = [op |-> "build"]
    /\ \E k \in MutatorKeys, p \in BOOLEAN, d \in MutatorDropped :
          mutator = [addr |-> 0, key |-> k, key_is_primary |-> p,
                     columns |-> 2, dropped |-> d]
    /\ \E n \in ShardCounts : txs = NewTxs(n)
    /\ batch_putter = [live |-> FALSE, sent |-> <<>>]
    /\ hist = [enq |-> <<>>, out0 |-> <<>>, inp0 |-> <<>>]
    /\ ops = <<>>
    /\ debug_assertions = FALSE     \* no difference for rows of two columns

NextMutator ==
    \/ \E u \in MutatorRows, fail \in 0..Len(txs), bad \in BadReads :
          put(u, fail, bad)
    \/ \E rws \in MutatorRowLists, fail \in 0..Len(txs), bad \in BadReads :
          multi_put(rws, fail, bad)
    \/ \E items \in MutatorItemLists, bad \in BadReads :
          \E fails \in FailSeqs(Len(items), Len(txs)) :
              batch_put(items, fails, bad)
    \/ \E key \in MutatorKeyVals, fail \in 0..Len(txs), bad \in BadReads :
          delete(key, fail, bad)
    \/ \E key \in MutatorKeyVals, u \in MutatorMods, fail \in 0..Len(txs),
          bad \in BadReads : update(key, u, fail, bad)
    \/ \E ins \in MutatorRows, u \in MutatorMods, fail \in 0..Len(txs),
          bad \in BadReads : insert_or_update(ins, u, fail, bad)

SpecMutator == InitMutator /\ [][NextMutator]_vars

\* ------------------------------------------- MutatorBuilder and the rpc cache
MaxBuildCalls == 4

\* the shard address lists of the base tables: one shard, or two
ShardAddrs == {<<1>>, <<2>>, <<1, 2>>}

\* build never looks into the cache: every Mutator gets a new handle
build_result_never_cached(cache, hs, addrs, fail) ==
    IF fail THEN [ok |-> FALSE, rpcs |-> cache, dihs |-> hs, dih |-> 0]
    ELSE [ok |-> TRUE,
          rpcs |-> [a \in DOMAIN cache \cup {addrs} |->
                      IF a = addrs THEN Len(hs) + 1 ELSE cache[a]],
          dihs |-> Append(hs, [txs |-> addrs]),
          dih |-> Len(hs) + 1]

\* the match on rpcs.entry(self.txs.clone()) of MutatorBuilder::build on
\* cache and handles hs: [ok, rpcs, dihs, dih]; fail says that connecting
\* fails, which new_on(..).unwrap() turns into a panic
build_result(cache, hs, addrs, fail) ==
    IF addrs \in DOMAIN cache                                  \* Occupied
    THEN [ok |-> TRUE, rpcs |-> cache, dihs |-> hs, dih |-> cache[addrs]]
    ELSE IF fail                                               \* Vacant
    THEN [ok |-> FALSE, rpcs |-> cache, dihs |-> hs, dih |-> 0]
    ELSE [ok |-> TRUE,
          rpcs |-> [a \in DOMAIN cache \cup {addrs} |->
                      IF a = addrs THEN Len(hs) + 1 ELSE cache[a]],
          dihs |-> Append(hs, [txs |-> addrs]),
          dih |-> Len(hs) + 1]

\* one more call is made on the builder side, within the bound of the model
BCall ==
    /\ ~panicked
    /\ budget > 0
    /\ budget' = budget - 1
    /\ UNCHANGED svars
    /\ UNCHANGED mvars

\* MutatorBuilder::build(rpcs) of a builder whose txs is addrs
build(addrs, fail) ==
    /\ BCall
    /\ LET res == build_result(rpcs, dihs, addrs, fail) IN
       IF ~res.ok
       THEN /\ Panic("build")
            /\ UNCHANGED cvars
       ELSE /\ rpcs' = res.rpcs
            /\ dihs' = res.dihs
            /\ mutators' = Append(mutators,
                   [domain_input_handle |-> res.dih, shard_addrs |-> addrs,
                    exclusivity |-> "SharedConnection"])
            /\ last' = [op |-> "build", addrs |-> addrs, dih |-> res.dih]
            /\ UNCHANGED panicked

\* Clone for Mutator<SharedConnection>, of Mutator i
clone(i) ==
    /\ BCall
    /\ i \in 1..Len(mutators)
    /\ mutators[i].exclusivity = "SharedConnection"
    /\ mutators' = Append(mutators, mutators[i])
    /\ last' = [op |-> "clone", of |-> i]
    /\ UNCHANGED <<rpcs, dihs, panicked>>

\* Mutator::into_exclusive(self) of Mutator i, which is consumed: the new
\* Mutator takes its place; fail as in build
into_exclusive(i, fail) ==
    /\ BCall
    /\ i \in 1..Len(mutators)
    /\ mutators[i].exclusivity = "SharedConnection"
    /\ rpcs' = rpcs
    /\ IF fail
       THEN /\ Panic("into_exclusive")
            /\ mutators' = [j \in 1..(Len(mutators) - 1) |->
                               IF j < i THEN mutators[j] ELSE mutators[j + 1]]
            /\ UNCHANGED dihs
       ELSE /\ dihs' = Append(dihs, [txs |-> mutators[i].shard_addrs])
            /\ mutators' = [mutators EXCEPT ![i] =
                   [domain_input_handle |-> Len(dihs) + 1,
                    shard_addrs |-> mutators[i].shard_addrs,
                    exclusivity |-> "ExclusiveConnection"]]
            /\ last' = [op |-> "into_exclusive", of |-> i,
                        was |-> mutators[i].domain_input_handle,
                        dih |-> Len(dihs) + 1]
            /\ UNCHANGED panicked

\* an empty rpc cache, as the ControllerHandle starts with
InitBuild ==
    /\ NoState
    /\ NoMutator
    /\ budget = MaxBuildCalls
    /\ panicked = FALSE
    /\ last = [op |-> "new"]
    /\ rpcs = [a \in {} |-> 0]
    /\ dihs = <<>>
    /\ mutators = <<>>

NextBuild ==
    \/ \E addrs \in ShardAddrs, fail \in BOOLEAN : build(addrs, fail)
    \/ \E i \in 1..Len(mutators) : clone(i)
    \/ \E i \in 1..Len(mutators), fail \in BOOLEAN : into_exclusive(i, fail)

SpecBuild == InitBuild /\ [][NextBuild]_vars

\* ------------------------------------------------- vocabulary of the claims

Indices == 1..Len(state)

\* the row handles of bucket sequence rs, as a set
HandlesOf(rs) == {rs[p] : p \in 1..Len(rs)}

\* the row handles index s holds
HeldBy(s) == UNION {HandlesOf(s.state[k]) : k \in DOMAIN s.state}

\* the row handles the State holds in any index
Held == UNION {HeldBy(state[i]) : i \in Indices}

\* the values of a set of row handles
ValsOf(hs) == {h.val : h \in hs}

\* the distinct Rc allocations the State holds
HeldIds == {h.id : h \in Held}

\* some handle of bucket rs carries value v
HasValue(rs, v) == \E p \in 1..Len(rs) : rs[p].val = v

\* some index of st holds a row of value v
HoldsValue(st, v) ==
    \E i \in 1..Len(st) : \E k \in DOMAIN st[i].state :
        HasValue(st[i].state[k], v)

\* what the specification says lookup returns on index s for key
ExpectedLookup(s, key) ==
    IF key \in DOMAIN s.state THEN [kind |-> "Some", rs |-> s.state[key]]
    ELSE IF s.partial THEN [kind |-> "Missing", rs |-> <<>>]
    ELSE [kind |-> "Some", rs |-> <<>>]

Max0(n) == IF n < 0 THEN 0 ELSE n

\* ------------------------------------------------------------------ C1
\* C1: on a State whose indices are all non-partial and that was only used
\* through add_key(_, None), insert(row, None) and remove(row), every row
\* held by any index is returned by lookup on every index I, under the key
\* of the row for I (rows compare by value, as Row<Vec<T>> does).
C1_EveryRowRetrievable ==
    \A i \in Indices : \A j \in Indices : \A h \in HeldBy(state[i]) :
        LET res == lookup_at(j, KeyOf(h.val, state[j].key)) IN
        /\ res.kind = "Some"
        /\ HasValue(res.rs, h.val)

\* two indices, both non-partial, a row left after a remove took another
C1_Witness ==
    /\ Len(state) >= 2
    /\ \A i \in Indices : ~state[i].partial
    /\ last.op = "remove" /\ last.removed
    /\ Held # {}

\* ------------------------------------------------------------------ C2
\* C2 (as claimed): without clear, len() equals the number of untagged
\* inserts minus the number of removes that found the row, floored at zero.
C2_LenIsDifference ==
    ~cleared => len = Max0(nUntagged - nFound)

\* C2 (amended): len() is the running count in which an untagged insert
\* adds one, a tagged insert changes nothing, a remove that found the row in
\* one or several indices subtracts exactly one, saturating at zero at that
\* moment, and a remove that found nothing changes nothing.
C2_LenSteps ==
    [][/\ (last'.op = "insert" /\ last'.tag # None) => rows' = rows
       /\ (last'.op = "insert" /\ last'.tag = None) => rows' = rows + 1
       /\ last'.op = "remove" =>
            rows' = IF HoldsValue(state, last'.row)
                    THEN (IF rows = 0 THEN 0 ELSE rows - 1)
                    ELSE rows]_vars

\* on a State with two non-partial indices that saw a tagged and an
\* untagged insert, one remove found the row and len() went from 1 to 0
C2_Witness ==
    /\ last.op = "remove" /\ last.removed
    /\ Len(state) >= 2
    /\ \A i \in Indices : ~state[i].partial
    /\ nextId = 2 /\ nUntagged = 1 /\ nFound = 1
    /\ rows = 0

\* ------------------------------------------------------------------ C3
\* C3: in every reachable state the rows counter equals the number of
\* distinct rows (Rc allocations) held in the indices, each counted once.
C3_RowsCountsHeld ==
    rows = Cardinality(HeldIds)

\* ------------------------------------------------------------------ C4
\* C4: lookup(columns, key) on the index keyed by columns returns
\* Some(bucket) when the key has a bucket, Missing when it has none and the
\* index is partial, Some(empty) when it has none and the index is not
\* partial; and lookup never changes the State.
C4_Lookup ==
    [][last'.op = "lookup" =>
          /\ obj' = obj
          /\ \E i \in Indices :
                /\ state[i].key = last'.cols
                /\ last'.ret = ExpectedLookup(state[i], last'.key)]_vars

\* a lookup hit a hole of a partial index while rows are held
C4_Witness ==
    /\ last.op = "lookup"
    /\ last.ret.kind = "Missing"
    /\ Held # {}

\* ------------------------------------------------------------------ C5
\* C5: for a partial index reached by tag t and a hole k: after
\* mark_filled(k, t) lookup of k returns Some(empty); an insert(row, None)
\* whose key under that index is k (now filled) makes lookup of k return a
\* bucket containing row; after mark_hole(k, t) lookup of k returns Missing.
C5_FillInsertEvict ==
    [][/\ (last'.op = "mark_filled" /\ state'[by_tag[last'.tag]].partial) =>
            lookup_in(state'[by_tag[last'.tag]], last'.key)
                = [kind |-> "Some", rs |-> <<>>]
       /\ (last'.op = "insert" /\ last'.tag = None) =>
            \A i \in Indices :
                LET k == KeyOf(last'.row, state[i].key) IN
                (state[i].partial /\ k \in filled[i]) =>
                    /\ lookup_in(state'[i], k).kind = "Some"
                    /\ [id |-> last'.id, val |-> last'.row]
                           \in HandlesOf(lookup_in(state'[i], k).rs)
       /\ (last'.op = "mark_hole" /\ state'[by_tag[last'.tag]].partial) =>
            lookup_in(state'[by_tag[last'.tag]], last'.key).kind
                = "Missing"]_vars

\* an untagged insert landed in a bucket that mark_filled had opened
C5_Witness ==
    /\ last.op = "insert" /\ last.tag = None
    /\ \E i \in Indices :
          /\ state[i].partial
          /\ KeyOf(last.row, state[i].key) \in filled[i]
          /\ state[i].state[KeyOf(last.row, state[i].key)]
                = <<[id |-> last.id, val |-> last.row]>>

\* ------------------------------------------------------------------ C6
\* C6: in a partial index a key has a bucket only if mark_filled was called
\* for it and no mark_hole or clear followed; an insert, tagged or not, of a
\* row whose key is a hole leaves that index unchanged, and lookup of that
\* key still returns Missing.
C6_HolesRejectInserts ==
    [][/\ \A i \in 1..Len(state') :
            state'[i].partial => DOMAIN state'[i].state \subseteq filled'[i]
       /\ last'.op = "insert" =>
            \A i \in Indices :
                LET k == KeyOf(last'.row, state[i].key) IN
                (state[i].partial /\ k \notin DOMAIN state[i].state) =>
                    /\ state'[i] = state[i]
                    /\ lookup_in(state'[i], k).kind = "Missing"]_vars

\* a tagged insert was rejected by a hole while another key was filled
C6_Witness ==
    /\ last.op = "insert" /\ last.tag # None /\ last.ret = FALSE
    /\ \E i \in Indices : state[i].partial /\ DOMAIN state[i].state # {}

\* ------------------------------------------------------------------ C7
\* C7: after add_key(C, None) on a State that already holds rows, the new
\* index contains exactly the rows (row values) the State holds, also when
\* the first existing index is partial.
C7_BackfillIsComplete ==
    (last.op = "add_key" /\ ~last.is_some /\ ~last.existed) =>
        ValsOf(HeldBy(state[Len(state)])) = ValsOf(Held)

\* ------------------------------------------------------------------ C8
\* C8: after add_key(C, Some(tags)) on a non-empty State with no index on
\* C, the new index has no keys, is partial, and every tag of tags resolves
\* in by_tag to the new index.
C8_PartialIndexStartsEmpty ==
    (last.op = "add_key" /\ last.is_some /\ ~last.existed) =>
        LET n == Len(state) IN
        /\ state[n].key = last.cols
        /\ DOMAIN state[n].state = {}
        /\ state[n].partial
        /\ \A t \in last.tags : t \in DOMAIN by_tag /\ by_tag[t] = n

\* a partial index with two tags was added to a State that holds rows
C8_Witness ==
    /\ last.op = "add_key" /\ last.is_some /\ ~last.existed
    /\ last.tags = Tags
    /\ ~is_empty
    /\ Held # {}

\* ------------------------------------------------------------------ C9
\* C9: insert(row, None) returns true exactly when at least one index
\* accepted the row, and false when every index rejected it or there is
\* no index.
C9_ReturnsOrOfOutcomes ==
    (last.op = "insert" /\ last.tag = None) =>
        (last.ret <=> \E i \in Indices :
            [id |-> last.id, val |-> last.row] \in HeldBy(state[i]))

\* ------------------------------------------------------------------ C10
\* C10: insert(row, Some(tag)) with a tag that is not in by_tag returns
\* true and leaves every index, by_tag and the row count unchanged.
C10_UnknownTagIsNoOp ==
    [][(last'.op = "insert" /\ last'.tag # None
            /\ last'.tag \notin DOMAIN by_tag) =>
          /\ last'.ret = TRUE
          /\ obj' = obj]_vars

\* an insert with an unknown tag on a State that holds rows and knows a tag
C10_Witness ==
    /\ last.op = "insert" /\ last.tag # None
    /\ last.tag \notin DOMAIN by_tag
    /\ DOMAIN by_tag # {}
    /\ Held # {}

\* ------------------------------------------------------------------ C11
\* index b holds a row of value v, or v's key under b is a hole of a
\* partial b
PresentOrHole(b, v) ==
    \/ v \in ValsOf(HeldBy(b))
    \/ b.partial /\ KeyOf(v, b.key) \notin DOMAIN b.state

\* C11: in every reachable state, for any two indices A and B and any row
\* present in A, the row is present in B unless its key under B is a hole
\* of a partial B; so after a tagged insert no non-partial index lacks a
\* row that another index holds.
C11_SameRowsModuloHoles ==
    \A a \in Indices, b \in Indices :
        \A v \in ValsOf(HeldBy(state[a])) : PresentOrHole(state[b], v)

\* ------------------------------------------------------------------ C19
\* the arity-N row the claim describes: every dropped default at its
\* position, the values of r at the remaining positions in their order
Reshaped(r, dropped) ==
    [i \in 1..(Len(r) + Cardinality(DOMAIN dropped)) |->
        IF (i - 1) \in DOMAIN dropped THEN dropped[i - 1]
        ELSE r[i - Cardinality({q \in DOMAIN dropped : q < i - 1})]]

\* C19: for any row of arity N - k, arity 0 included, and any dropped map
\* of k distinct positions in [0, N), inject_dropped_cols produces the row
\* of arity N with each default at its declared position and the original
\* values at the remaining positions in their original order.
C19_InjectReshapes ==
    (/\ last.op = "inject_dropped_cols"
     /\ \A i \in 1..Len(last.rs) : last.rs[i].op = "Insert") =>
        /\ ~panicked
        /\ ops = [i \in 1..Len(last.rs) |->
                    Insert(Reshaped(last.rs[i].row, mutator.dropped))]

\* ----------------------------------------- vocabulary of the Mutator claims
\* the operations carried by a sequence of frames, in order
RECURSIVE DataOf(_)
DataOf(frames) ==
    IF frames = <<>> THEN <<>> ELSE Head(frames).data \o DataOf(Tail(frames))

\* the frames written to shard s in t since its stream had n frames
FramesSince(t, s, n) == SubSeq(t[s].out, n + 1, Len(t[s].out))

\* how many elements of sequence q equal x
Count(q, x) == Cardinality({j \in 1..Len(q) : q[j] = x})

\* the elements of sequence q
OpsIn(q) == {q[j] : j \in 1..Len(q)}

\* the value the claim shards operation o by, for key column key_col
ShardValue(o, key_col) ==
    IF o.op \in {"Insert", "InsertOrUpdate"} THEN o.row[key_col + 1]
    ELSE o.key[1]

\* a is b with some elements left out
RECURSIVE IsSubSeq(_, _)
IsSubSeq(a, b) ==
    IF a = <<>> THEN TRUE
    ELSE IF b = <<>> THEN FALSE
    ELSE IF Head(a) = Head(b) THEN IsSubSeq(Tail(a), Tail(b))
    ELSE IsSubSeq(a, Tail(b))

\* ------------------------------------------------------------------ C12
\* C12: an enqueue with more than one shard and a single-column key that
\* returns Ok sends, over all shards together, a permutation of the
\* input's operations (none lost, none duplicated), each to the shard
\* shard_by(v, n_shards), v being row[key_col] for Insert and
\* InsertOrUpdate and key[0] for Delete and Update.
C12_ShardedPermutation ==
    [][(last'.op = "enqueue" /\ last'.ret = "Ok" /\ Len(txs) > 1) =>
          LET n == Len(txs)
              new(s) == DataOf(FramesSince(txs', s, Len(txs[s].out)))
              all == OpsIn(last'.i.data)
                         \cup UNION {OpsIn(new(s)) : s \in 1..n}
          IN /\ \A o \in all :
                   Count(last'.i.data, o)
                       = Sum([s \in 1..n |-> Count(new(s), o)])
             /\ \A s \in 1..n : \A j \in 1..Len(new(s)) :
                   shard_by(ShardValue(new(s)[j], mutator.key[1]), n)
                       = s - 1]_vars

\* an Input of two operations was split over the two shards
C12_Witness ==
    /\ last.op = "enqueue" /\ last.ret = "Ok"
    /\ Len(last.i.data) = 2
    /\ batch_putter.sent = <<1, 1>>

\* ------------------------------------------------------------------ C13
\* C13: for every shard, the operations it receives over any sequence of
\* enqueue calls on one handle appear in the relative order in which they
\* were enqueued, across calls and within the data of one Input.
C13_ShardOrder ==
    batch_putter.live =>
        \A s \in 1..Len(txs) :
            IsSubSeq(DataOf(FramesSince(txs, s, hist.out0[s])), hist.enq)

\* a shard received two frames from the handle, one of two operations
C13_Witness ==
    /\ batch_putter.live
    /\ \E s \in 1..Len(txs) :
          LET frames == FramesSince(txs, s, hist.out0[s])
          IN /\ Len(frames) = 2
             /\ Len(frames[1].data) = 2
             /\ frames[2].data # frames[1].data

\* ------------------------------------------------------------------ C14
\* the last acknowledgement on the streams of t past lengths n0: that of
\* the highest shard that has one
LastAck(t, n0) ==
    LET S == {s \in 1..Len(t) : Len(t[s].inp) > n0[s]}
    IN IF S = {} THEN Ok(0)
       ELSE LET hi == CHOOSE s \in S : \A q \in S : q <= s
            IN t[hi].inp[Len(t[hi].inp)]

\* C14: a wait that returns has read from each shard exactly as many
\* acknowledgements as Input frames were sent to that shard through this
\* BatchSendHandle (none from a shard that received no frame), and returns
\* the last acknowledgement read, or Ok(0) when nothing was sent.
C14_WaitReadsWhatWasSent ==
    [][(batch_putter.live /\ last'.op = "wait" /\ ~batch_putter'.live
            /\ last'.ret # Panicked) =>
          /\ \A s \in 1..Len(txs) :
                Len(txs'[s].inp) - Len(txs[s].inp)
                    = Len(txs[s].out) - hist.out0[s]
          /\ last'.ret = LastAck(txs', Lens(txs, "inp"))]_vars

\* a wait returned after two frames to the first shard and none to the
\* second
C14_Witness ==
    /\ last.op = "wait" /\ last.ret # Panicked
    /\ last.sent = <<2, 0>>
    /\ Len(txs[1].inp) = 2 /\ Len(txs[2].inp) = 0

\* ------------------------------------------------------------------ C15
\* the call wrote no frame to any shard and read no acknowledgement
NothingSent == \A s \in 1..Len(txs) : last.wrote[s] = 0 /\ last.read[s] = 0

\* the call returned WrongColumnCount(n_columns, got) for the first element
\* of lens that is not n_columns
WrongCountOfFirst(lens) ==
    \E j \in 1..Len(lens) :
        /\ lens[j] # mutator.columns
        /\ \A q \in 1..(j - 1) : lens[q] = mutator.columns
        /\ last.ret = WrongColumnCount(mutator.columns, lens[j])

\* C15: put(row) with row.len() != n_columns, and multi_put(rows) with any
\* row of wrong length, return WrongColumnCount(n_columns, got) and send no
\* frame to any shard; for multi_put no row of the call is sent, also not
\* those before the offending row.
C15_PutValidates ==
    (/\ last.op \in {"put", "multi_put"}
     /\ \E j \in 1..Len(last.args.rows) :
           Len(last.args.rows[j]) # mutator.columns) =>
        /\ WrongCountOfFirst([j \in 1..Len(last.args.rows) |->
                                 Len(last.args.rows[j])])
        /\ NothingSent

\* a multi_put whose second row is too long, after a row of the right length
C15_Witness ==
    /\ last.op = "multi_put"
    /\ last.args.rows = <<(<<1, 2>>), (<<1, 2, 1>>)>>
    /\ last.ret = WrongColumnCount(2, 3)

\* ------------------------------------------------------------------ C16
\* C16: batch_put(rows) in which some row has a length different from
\* n_columns returns WrongColumnCount and no network traffic occurs for the
\* call: no frame is sent to any shard, also not for the valid rows that
\* precede the offending row.
C16_BatchPutValidates ==
    (/\ last.op = "batch_put"
     /\ \E j \in 1..Len(last.args.items) :
           /\ last.args.items[j].op = "Insert"
           /\ Len(last.args.items[j].row) # mutator.columns) =>
        /\ last.ret.kind = "WrongColumnCount"
        /\ NothingSent

\* ------------------------------------------------------------------ C17
\* the first modification of u whose column is out of range is that of
\* column coli
FirstOutOfRange(u, coli) ==
    \E j \in 1..Len(u) :
        /\ u[j][1] = coli /\ coli >= mutator.columns
        /\ \A q \in 1..(j - 1) : u[q][1] < mutator.columns

\* C17: update and insert_or_update first assert that the key is non-empty
\* and primary; then update returns WrongKeyColumnCount(n_key_columns, got)
\* for a key of wrong length, insert_or_update returns
\* WrongColumnCount(n_columns, got) for a row of wrong length, and both
\* return WrongColumnCount(n_columns, coli + 1) for a modification column
\* index >= n_columns; in each failing case nothing is sent.
C17_UpdateValidates ==
    LET a == last.args
        asserted == mutator.key # <<>> /\ mutator.key_is_primary
        arity == IF last.op = "update" THEN Len(a.key) = Len(mutator.key)
                 ELSE Len(a.row) = mutator.columns
        inrange == \A j \in 1..Len(a.u) : a.u[j][1] < mutator.columns
    IN last.op \in {"update", "insert_or_update"} =>
        /\ ~asserted => (last.ret = RetPanic /\ NothingSent)
        /\ (asserted /\ ~arity) =>
              /\ last.op = "update" =>
                    last.ret = WrongKeyColumnCount(Len(mutator.key), Len(a.key))
              /\ last.op = "insert_or_update" =>
                    last.ret = WrongColumnCount(mutator.columns, Len(a.row))
              /\ NothingSent
        /\ (asserted /\ arity /\ ~inrange) =>
              /\ \E coli \in 0..3 :
                    /\ FirstOutOfRange(a.u, coli)
                    /\ last.ret = WrongColumnCount(mutator.columns, coli + 1)
              /\ NothingSent
        /\ (asserted /\ arity /\ inrange) =>
              last.ret.kind \in {"Ok", "panic"}

\* an update with a key of two columns on a table keyed by one column
C17_Witness ==
    /\ last.op = "update"
    /\ mutator.key = <<0>> /\ mutator.key_is_primary
    /\ last.args.key = <<1, 2>>
    /\ last.ret = WrongKeyColumnCount(1, 2)

\* ------------------------------------------------------------------ C18
SendOps == {"put", "multi_put", "delete", "update", "insert_or_update"}

\* C18 as stated: send(ops), used by put, multi_put, delete, update and
\* insert_or_update, enqueues the frames and returns without reading any
\* acknowledgement.
C18_SendIsOneShot ==
    last.op \in SendOps => \A s \in 1..Len(txs) : last.read[s] = 0

\* C18 amended: send(ops) enqueues the frames and then waits: a call of
\* put, multi_put, delete, update or insert_or_update that returns Ok has
\* read from every shard one acknowledgement per frame it wrote to it, as
\* has a batch_put that returns Ok or TransactionFailed.
C18_SendWaits ==
    (last.op \in SendOps \cup {"batch_put"}
        /\ last.ret.kind \in {"Ok", "TransactionFailed"}) =>
        \A s \in 1..Len(txs) : last.read[s] = last.wrote[s]

\* a put that returned Ok wrote one frame and read its acknowledgement
C18_Witness ==
    /\ last.op = "put" /\ last.ret = RetOk
    /\ \E s \in 1..Len(txs) : last.wrote[s] = 1 /\ last.read[s] = 1

\* ------------------------------------------------------------------ C20
\* C20: an I/O error while sending a frame during batch_put is returned to
\* the caller as Err(TransactionFailed), not raised as a panic.
C20_SendErrorIsReturned ==
    (last.op = "batch_put" /\ last.io = "send") =>
        (last.ret = TransactionFailed /\ ~panicked)

\* ------------------------------------------------------------------ C23
\* C23: add_key(columns, tags) when an index with exactly these columns
\* already exists only adds the tags to by_tag, pointing at that index: the
\* number of indices, every index's contents and partial flag, and the row
\* count are unchanged; so no two indices of a State ever have equal key
\* columns.
C23_AddKeyOnExistingColumns ==
    [][/\ (/\ last'.op = "add_key"
           /\ add_key(last'.cols, last'.is_some, last'.tags)
           /\ \E i \in Indices : state[i].key = last'.cols) =>
                /\ state' = state /\ rows' = rows
                /\ LET i == CHOOSE j \in Indices : state[j].key = last'.cols
                       added == IF last'.is_some THEN last'.tags ELSE {}
                   IN /\ DOMAIN by_tag' = DOMAIN by_tag \cup added
                      /\ \A t \in added : by_tag'[t] = i
                      /\ \A t \in DOMAIN by_tag \ added : by_tag'[t] = by_tag[t]
       /\ \A i \in 1..Len(state'), j \in 1..Len(state') :
            state'[i].key = state'[j].key => i = j]_vars

\* tags were added to an index that exists and holds rows
C23_Witness ==
    /\ last.op = "add_key" /\ last.existed /\ last.is_some
    /\ last.tags # {}
    /\ \A t \in last.tags : by_tag[t] = state_for(last.cols)
    /\ HeldBy(state[state_for(last.cols)]) # {}

\* ------------------------------------------------------------------ C24
\* C24: every tag registered in by_tag resolves to an index whose partial
\* flag is set, after any sequence of add_key calls, add_key with tags on
\* columns that already have a non-partial index included.
C24_TagsResolveToPartial ==
    \A t \in DOMAIN by_tag : state[by_tag[t]].partial

\* ------------------------------------------------------------------ C25
\* C25: mark_filled(key, tag) fails its assertion exactly when the tag's
\* index already has a bucket at key, and otherwise adds an empty bucket
\* there; mark_hole(key, tag) fails its assertion exactly when the tag's
\* index has no bucket at key, and otherwise removes that bucket; neither
\* changes any other index or any other key.
C25_MarkFilledMarkHole ==
    [][(\/ last'.op \in {"mark_filled", "mark_hole"}
        \/ (last'.op = "panic" /\ last'.what \in {"mark_filled", "mark_hole"}))
       => \A key \in KeyVals, tag \in DOMAIN by_tag :
         LET i == by_tag[tag]
             had == key \in DOMAIN state[i].state
             others(st) == [k \in DOMAIN st[i].state \ {key} |-> st[i].state[k]]
             frame == /\ Len(state') = Len(state) /\ rows' = rows
                      /\ by_tag' = by_tag
                      /\ \A j \in Indices \ {i} : state'[j] = state[j]
                      /\ state'[i].key = state[i].key
                      /\ state'[i].partial = state[i].partial
                      /\ others(state') = others(state)
         IN /\ mark_filled(key, tag) =>
                /\ panicked' <=> had
                /\ ~had => state'[i].state[key] = <<>>
                /\ frame
            /\ mark_hole(key, tag) =>
                /\ panicked' <=> ~had
                /\ had => key \notin DOMAIN state'[i].state
                /\ frame]_vars

\* two keys of a partial index were marked filled, and one of them was then
\* marked a hole: the other key still has its bucket
C25_Witness ==
    /\ last.op = "mark_hole"
    /\ LET i == by_tag[last.tag]
       IN /\ state[i].partial
          /\ last.key \notin DOMAIN state[i].state
          /\ \E k \in DOMAIN state[i].state : k # last.key

\* ------------------------------------------------------------------ C27
\* the row handles of bucket b are in the order in which insert made them
InInsertionOrder(b) == \A m \in 1..Len(b), n \in 1..Len(b) :
                          m < n => b[m].id < b[n].id

\* C27: within every bucket of every index the rows appear in the order in
\* which they were inserted, after any sequence of insert and remove calls:
\* removing a row keeps the relative order of the rows that remain.  (Stated
\* on a State with one index, which no add_key ever built from another.)
C27_BucketsInInsertionOrder ==
    Len(state) = 1 =>
        \A k \in DOMAIN state[1].state : InInsertionOrder(state[1].state[k])

\* C27, amended: an untagged insert appends the row at the end of its bucket
\* in every index and leaves every other bucket as it was; remove(r) takes
\* the first row equal to r out of its bucket and moves the last row of the
\* bucket into its place, leaving every other bucket as it was.
C27_InsertAppendsRemoveSwaps ==
    [][\A r \in RowVals :
         /\ insert(r, None) =>
              \A i \in Indices :
                /\ DOMAIN state'[i].state
                      = DOMAIN state[i].state \cup {KeyOf(r, state[i].key)}
                /\ \A k \in DOMAIN state'[i].state :
                     LET old == IF k \in DOMAIN state[i].state
                                THEN state[i].state[k] ELSE <<>>
                     IN state'[i].state[k]
                          = IF k = KeyOf(r, state[i].key)
                            THEN Append(old, [id |-> nextId + 1, val |-> r])
                            ELSE old
         /\ remove(r) =>
              \A i \in Indices :
                /\ DOMAIN state'[i].state = DOMAIN state[i].state
                /\ \A k \in DOMAIN state[i].state :
                     LET old == state[i].state[k]
                         new == state'[i].state[k]
                         at == {j \in 1..Len(old) : old[j].val = r}
                     IN IF k # KeyOf(r, state[i].key) \/ at = {}
                        THEN new = old
                        ELSE LET p == CHOOSE j \in at : \A q \in at : j <= q
                             IN /\ Len(new) = Len(old) - 1
                                /\ \A j \in 1..Len(new) :
                                     new[j] = IF j = p THEN old[Len(old)]
                                              ELSE old[j]]_vars

\* a remove took the first of three rows out of a bucket: the last row now
\* stands before the second
C27_Witness ==
    /\ last.op = "remove" /\ last.removed
    /\ \E i \in Indices : \E k \in DOMAIN state[i].state :
          /\ Len(state[i].state[k]) = 2
          /\ state[i].state[k][1].id > state[i].state[k][2].id

\* ------------------------------------------------------------------ C30
\* C30: on a State with at least one index and all indices non-partial,
\* after any sequence of untagged insert and remove calls, is_empty() is true
\* exactly when len() == 0, in particular after inserting a row and removing
\* it again.  (Stated on a State whose indices existed before its first
\* insert: the row count is the number of rows the first index holds.)
C30_IsEmptyIffLenZero ==
    (/\ Len(state) >= 1
     /\ \A i \in Indices : ~state[i].partial
     /\ len = Cardinality(HeldBy(state[1]))) =>
        (is_empty <=> len = 0)

\* ------------------------------------------------------------------ C22
\* C22: draining a State (into_iter) after any sequence of add_key, insert,
\* remove, mark_filled and mark_hole drops all indices except the last, and
\* every row handle in the remaining index then has exactly one owner, so
\* the "rc still not owned after unaliasing" branch is never reached; the
\* rows yielded are exactly those of the last index.
C22_DrainYieldsLastIndex ==
    [][(into_iter /\ Len(state) >= 1) =>
         LET s == state[Len(state)] IN
         /\ unalias_for_state(state) = <<s>>
         /\ \A h \in HeldBy(s) : strong_count(unalias_for_state(state), h) = 1
         /\ ~panicked'
         /\ last'.op = "into_iter"
         /\ DOMAIN last'.ret = DOMAIN s.state
         /\ \A k \in DOMAIN s.state :
              /\ Len(last'.ret[k]) = Len(s.state[k])
              /\ \A p \in 1..Len(s.state[k]) :
                   last'.ret[k][p] = s.state[k][p].val]_vars

\* a State with two indices was drained: an index was dropped and a row of
\* the last one was yielded
C22_Witness ==
    /\ last.op = "into_iter"
    /\ last.dropped >= 1
    /\ \E k \in DOMAIN last.ret : last.ret[k] # <<>>

\* ------------------------------------------------------------------ C26
\* the last frame written to the only shard carries exactly operation o
SentAlone(o) ==
    /\ last.wrote[1] = 1
    /\ txs[1].out[Len(txs[1].out)].data = <<o>>

\* C26: dropped-column compensation does not reshape Update and Delete
\* operations: on a Mutator with a non-empty dropped map, delete and update
\* pass through prep_records and are sent with their key and modifications
\* unchanged.  (Stated for one shard and calls without an I/O failure; the
\* update is one that passes the checks of its key and modifications.)
C26_DeleteUpdatePassThrough ==
    (/\ DOMAIN mutator.dropped # {} /\ Len(txs) = 1
     /\ last.op \in {"delete", "update"} /\ last.io = "none") =>
        /\ last.op = "delete" => SentAlone(Delete(last.args.key))
        /\ (/\ last.op = "update"
            /\ mutator.key # <<>> /\ mutator.key_is_primary
            /\ Len(last.args.key) = Len(mutator.key)
            /\ apply_modifications(no_modifications, last.args.u).ok) =>
               SentAlone(Update(last.args.key,
                   apply_modifications(no_modifications, last.args.u).set))

\* ------------------------------------------------------------------ C28
\* C28: after every Mutator write operation returns, whether with Ok or with
\* a MutatorError, every frame sent on each shard connection of its
\* DomainInputHandle has had its acknowledgement read: no unread
\* acknowledgement is left for a later operation to consume as its own.
C28_NoAckLeftUnread ==
    (last.op \in SendOps \cup {"batch_put"} /\ last.ret.kind # "panic") =>
        \A s \in 1..Len(txs) : Len(txs[s].inp) = Len(txs[s].out)

\* ------------------------------------------------------------------ C29
\* the acknowledgements the last call read from shard s
AcksRead(s) ==
    SubSeq(txs[s].inp, Len(txs[s].inp) - last.read[s] + 1, Len(txs[s].inp))

\* C29: batch_put returns Ok only if every acknowledgement read for the
\* batch was Ok; if any shard acknowledged any frame of the batch with an
\* error, batch_put returns Err(TransactionFailed).
C29_BatchPutReportsAnyError ==
    (last.op = "batch_put" /\ last.ret.kind # "panic") =>
        LET bad == \E s \in 1..Len(txs) : Err \in OpsIn(AcksRead(s))
        IN /\ last.ret = RetOk => ~bad
           /\ bad => last.ret = TransactionFailed

\* ------------------------------------------------------------------ C21
\* the Mutators built or cloned and not made exclusive
Shared(ms) == {i \in 1..Len(ms) : ms[i].exclusivity = "SharedConnection"}

\* two shared Mutators have the same handle exactly when their shard address
\* lists are equal; the cache holds one handle per address list, made for
\* that list, and it is the handle of every shared Mutator of that list; the
\* handle of an exclusive Mutator is in no cache entry and in no other Mutator
CacheShares(cache, hs, ms) ==
    /\ \A i \in Shared(ms), j \in Shared(ms) :
          (ms[i].domain_input_handle = ms[j].domain_input_handle)
              <=> (ms[i].shard_addrs = ms[j].shard_addrs)
    /\ \A a \in DOMAIN cache, b \in DOMAIN cache : cache[a] = cache[b] => a = b
    /\ \A a \in DOMAIN cache : hs[cache[a]].txs = a
    /\ \A i \in Shared(ms) :
          /\ ms[i].shard_addrs \in DOMAIN cache
          /\ cache[ms[i].shard_addrs] = ms[i].domain_input_handle
    /\ \A i \in (1..Len(ms)) \ Shared(ms) :
          /\ \A a \in DOMAIN cache : cache[a] # ms[i].domain_input_handle
          /\ \A j \in (1..Len(ms)) \ {i} :
                ms[j].domain_input_handle # ms[i].domain_input_handle

\* C21: after any sequence of MutatorBuilder.build calls on one rpc cache,
\* two Mutators share the same DomainInputHandle exactly when their shard
\* address lists are equal, and the cache holds one handle per distinct
\* address list; into_exclusive creates a fresh handle that is not in the
\* cache and leaves the cache and the shared handle unchanged.
C21_CacheSharesHandles ==
    [][/\ CacheShares(rpcs', dihs', mutators')
       /\ \A i \in 1..Len(mutators) :
            (into_exclusive(i, FALSE)) =>
                LET was == mutators[i].domain_input_handle
                    new == mutators'[i].domain_input_handle
                IN /\ rpcs' = rpcs
                   /\ dihs'[was] = dihs[was]
                   /\ new \notin 1..Len(dihs)
                   /\ \A a \in DOMAIN rpcs' : rpcs'[a] # new]_vars

\* a Mutator was made exclusive next to a shared Mutator of the same address
\* list, which keeps the cached handle, and a Mutator of another list
C21_Witness ==
    /\ last.op = "into_exclusive"
    /\ \E j \in Shared(mutators) :
          /\ mutators[j].shard_addrs = mutators[last.of].shard_addrs
          /\ mutators[j].domain_input_handle = last.was
    /\ \E j \in Shared(mutators) :
          mutators[j].shard_addrs # mutators[last.of].shard_addrs

====
